---- MODULE Spec2Model ----
(***************************************************************************)
(* Model of travel_agent_new.py: a Streamlit page whose script function    *)
(* main() is re-run from top to bottom on every user interaction.  The     *)
(* state is the session's result slot, the widget values, the process      *)
(* environment, and the record of what the last run of main() did.         *)
(***************************************************************************)
EXTENDS Integers, Sequences, FiniteSets, TLC

VARIABLES
    session_state,      \* st.session_state: a mapping, empty or {itinerary_result}
    destination,        \* value of the "Destination" text input
    people,             \* value of the "Number of people" number input
    budget,             \* value of the "Budget (USD)" number input
    check_in_date,      \* value of the "Check-in Date" date input
    check_out_date,     \* value of the "Check-out Date" date input
    openai_env,         \* os.environ['OPENAI_API_KEY'] as os.getenv returns it
    serper_env,         \* os.environ['SERPER_API_KEY'] as os.getenv returns it
    button,             \* what st.button returned in the last run of main()
    log,                \* calls and rendered elements of the last run, in order
    produced_for        \* history: destination of the request that wrote the slot

vars == <<session_state, destination, people, budget, check_in_date,
          check_out_date, openai_env, serper_env, button, log, produced_for>>

----------------------------------------------------------------------------
(* Bounds and program constants *)

MaxPeople == 2

MinPeople == 1
DefaultPeople == 1
MinBudget == 100
DefaultBudget == 1000

None == "<None>"

Destinations == {"", "Mumbai", "Paris"}
People == MinPeople..MaxPeople
Budgets == {MinBudget, DefaultBudget}

\* str(result) of what crew.kickoff() returns: an opaque string, possibly empty
Texts == {"", "Hotel list A"}

\* <<OPENAI_API_KEY, SERPER_API_KEY>> as os.getenv can return them: a key is
\* unset (None), set to the empty string, or set
Environments == { <<"key", "key">>, <<None, "key">>, <<"key", "">>,
                  <<"", None>> }

----------------------------------------------------------------------------
(* Calendar dates (datetime.date) and their arithmetic *)

Date(y, m, d) == [y |-> y, m |-> m, d |-> d]

Dates == { Date(2023, 12, 31), Date(2024, 1, 1), Date(2024, 3, 1),
           Date(2024, 6, 1), Date(2024, 6, 5) }

IsLeap(y) == (y % 4 = 0) /\ ((y % 100 # 0) \/ (y % 400 = 0))

DaysInMonth(y, m) ==
    IF m = 2 THEN (IF IsLeap(y) THEN 29 ELSE 28)
    ELSE IF m \in {4, 6, 9, 11} THEN 30 ELSE 31

DaysBeforeYear(y) ==
    LET p == y - 1 IN p * 365 + (p \div 4) - (p \div 100) + (p \div 400)

RECURSIVE DaysBeforeMonth(_, _)
DaysBeforeMonth(y, m) ==
    IF m = 1 THEN 0 ELSE DaysBeforeMonth(y, m - 1) + DaysInMonth(y, m - 1)

\* date.toordinal()
ToOrdinal(dt) == DaysBeforeYear(dt.y) + DaysBeforeMonth(dt.y, dt.m) + dt.d

\* date - date: a timedelta, of which only .days is read
DateSub(a, b) == [days |-> ToOrdinal(a) - ToOrdinal(b)]

\* date + Timedelta(days=1)
NextDay(dt) ==
    IF dt.d < DaysInMonth(dt.y, dt.m) THEN Date(dt.y, dt.m, dt.d + 1)
    ELSE IF dt.m < 12 THEN Date(dt.y, dt.m + 1, 1)
    ELSE Date(dt.y + 1, 1, 1)

\* Variant: both end dates counted
calculate_days_Inclusive(check_in, check_out) ==
    LET delta == DateSub(check_out, check_in) IN delta.days + 1

calculate_days(check_in, check_out) ==
    LET delta == DateSub(check_out, check_in) IN delta.days

----------------------------------------------------------------------------
(* Python values *)

\* bool(v) for v a string or None
Truthy(v) == v # None /\ v # ""

\* The exceptions the downstream libraries raise; all derive from Exception
ExceptionTypes == {"ValueError", "RuntimeError"}

\* str(e)
ExcStr(exc) == IF exc = "ValueError" THEN "invalid response" ELSE "request failed"

\* Where the downstream call fails, and with what
NoFault == [at |-> "none", exc |-> None]
Faults == { NoFault,
            [at |-> "create_agents", exc |-> "ValueError"],
            [at |-> "research", exc |-> "RuntimeError"],
            [at |-> "planning", exc |-> "ValueError"] }

\* How a downstream call can end: with a text, or with a fault
Endings == [fault : {NoFault}, text : Texts] \cup
           [fault : Faults \ {NoFault}, text : {""}]

\* An event of a run: <<operation, argument>>
Ev(op, arg) == <<op, arg>>
At(l, op) == {i \in DOMAIN l : l[i][1] = op}
Has(l, op) == At(l, op) # {}
Count(l, op) == Cardinality(At(l, op))

----------------------------------------------------------------------------
(* The agent pipeline *)

load_environment(openai, serper) == <<openai, serper>>

TripArgs(dest, days, bud, ppl, check_in, check_out) ==
    [destination |-> dest, days |-> days, budget |-> bud, people |-> ppl,
     check_in_date |-> check_in, check_out_date |-> check_out]

\* returns <<researcher, planner>>
create_agents(args) ==
    << [role |-> "Travel Planner Expert", goal |-> args,
        tools |-> {"SerperDevTool", "WebsiteSearchTool"}],
       [role |-> "Travel Planner",
        goal |-> "Generate customized itineraries of hotels based on user preferences",
        tools |-> {}] >>

\* Variant: the two tasks returned in the other order
create_tasks_Swapped(researcher, planner) ==
    << [task |-> "planning", agent |-> planner.role],
       [task |-> "research", agent |-> researcher.role] >>

\* returns <<research, planning>>
create_tasks(researcher, planner) ==
    << [task |-> "research", agent |-> researcher.role],
       [task |-> "planning", agent |-> planner.role] >>

Crew(agents, tasks, process) ==
    [agents |-> agents, tasks |-> tasks, process |-> process]

\* crew.kickoff() under Process.sequential: the tasks run one after another in
\* the order of crew.tasks; a task that raises ends the run.
RECURSIVE RunTasks(_, _, _)
RunTasks(tasks, i, fault) ==
    IF i > Len(tasks) THEN <<>>
    ELSE IF fault.at = tasks[i].task
         THEN << Ev("task_start", tasks[i]), Ev("raised", fault.exc) >>
         ELSE << Ev("task_start", tasks[i]), Ev("task_end", tasks[i]) >>
              \o RunTasks(tasks, i + 1, fault)

kickoff(crew, fault) == RunTasks(crew.tasks, 1, fault)

\* The events of one call, ending in Ev("raised", e) or Ev("returned", text)
run_travel_planner(args, fault, text) ==
    LET agents == create_agents(args)
        researcher == agents[1]
        planner == agents[2]
        tasks == create_tasks(researcher, planner)
        research_task == tasks[1]
        planning_task == tasks[2]
        crew == Crew(<<researcher.role, planner.role>>,
                     <<research_task, planning_task>>, "sequential")
        ran == kickoff(crew, fault)
    IN  << Ev("run_travel_planner", args) >> \o
        IF fault.at = "create_agents"
        THEN << Ev("raised", fault.exc) >>
        ELSE << Ev("Crew", crew), Ev("kickoff", crew.process) >> \o ran \o
             (IF Has(ran, "raised") THEN <<>> ELSE << Ev("returned", text) >>)

----------------------------------------------------------------------------
(* main(): one run of the page script *)

EmptySession == [k \in {} |-> None]

\* Variant: the slot reset on every run
InitSession_Always(ss) == [k \in {"itinerary_result"} |-> None]

\* if 'itinerary_result' not in st.session_state: ... = None
InitSession(ss) ==
    IF "itinerary_result" \notin DOMAIN ss
    THEN [k \in {"itinerary_result"} |-> None]
    ELSE ss

DestinationError == "Please enter a destination"
DurationError == "Check-out date must be after check-in date"
KeysError == "Missing API keys. Please check your environment variables."
ExceptionError(exc) == "An error occurred: " \o ExcStr(exc)
RetryHint == "Please try again or contact support if the problem persists."

\* Variant: a stay of zero days let through
Validate_AllowsZero(dest, days) ==
    IF ~Truthy(dest) THEN DestinationError
    ELSE IF days < 0 THEN DurationError
    ELSE None

\* Variant: the destination check left out
Validate_DurationOnly(dest, days) ==
    IF days < 1 THEN DurationError ELSE None

\* Variant: the duration checked before the destination
Validate_DurationFirst(dest, days) ==
    IF days < 1 THEN DurationError
    ELSE IF ~Truthy(dest) THEN DestinationError
    ELSE None

\* The two checks that precede the try block: the message of the first one
\* that fails, or None
Validate(dest, days) ==
    IF ~Truthy(dest) THEN DestinationError
    ELSE IF days < 1 THEN DurationError
    ELSE None

\* Variant: refused only when both keys are missing
CredentialsMissing_Both(keys) == ~Truthy(keys[1]) /\ ~Truthy(keys[2])

\* not openai_api_key or not serp_api_key
CredentialsMissing(keys) == ~Truthy(keys[1]) \/ ~Truthy(keys[2])

\* Variant: except ValueError as e
Handles_ValueErrorOnly(exc) == exc = "ValueError"

\* except Exception as e
Handles(exc) == exc \in ExceptionTypes

\* The try block.  returned: main returned inside it; an exception the handler
\* does not take leaves main (the event "escaped").
TryGenerate(ss, args, openai, serper, fault, text) ==
    LET keys == load_environment(openai, serper)
        loaded == << Ev("load_environment", keys) >>
    IN  IF CredentialsMissing(keys)
        THEN [session |-> ss, returned |-> TRUE,
              events |-> loaded \o << Ev("st.error", KeysError) >>]
        ELSE
          LET call == run_travel_planner(args, fault, text)
              last == call[Len(call)]
          IN  IF last[1] = "returned"
              THEN [session |-> [ss EXCEPT !["itinerary_result"] = last[2]],
                    returned |-> FALSE,
                    events |-> loaded \o call \o << Ev("store", last[2]) >>]
              ELSE IF Handles(last[2])
              THEN [session |-> ss, returned |-> FALSE,
                    events |-> loaded \o call \o
                               << Ev("st.error", ExceptionError(last[2])),
                                  Ev("st.error", RetryHint) >>]
              ELSE [session |-> ss, returned |-> TRUE,
                    events |-> loaded \o call \o << Ev("escaped", last[2]) >>]

FileName(dest) == "travel_itinerary_" \o dest \o ".txt"

\* if st.session_state.itinerary_result: expander and download button
Display(ss, dest) ==
    IF Truthy(ss["itinerary_result"])
    THEN << Ev("st.expander", ss["itinerary_result"]),
            Ev("st.download_button", [data |-> ss["itinerary_result"],
                                      file_name |-> FileName(dest)]) >>
    ELSE <<>>

Main(ss, dest, ppl, bud, check_in, check_out, pressed, openai, serper, fault, text) ==
    LET ss1 == InitSession(ss)
        days == calculate_days(check_in, check_out)
        head == << Ev("st.info", days), Ev("st.button", pressed) >>
    IN  IF ~pressed
        THEN [session |-> ss1, events |-> head \o Display(ss1, dest)]
        ELSE
          LET err == Validate(dest, days)
          IN  IF err # None
              THEN [session |-> ss1, events |-> head \o << Ev("st.error", err) >>]
              ELSE
                LET g == TryGenerate(ss1, TripArgs(dest, days, bud, ppl,
                                                   check_in, check_out),
                                     openai, serper, fault, text)
                IN  [session |-> g.session,
                     events |-> head \o g.events \o
                                (IF g.returned THEN <<>>
                                 ELSE Display(g.session, dest))]

----------------------------------------------------------------------------
(* The session: the first run, then one run per interaction *)

\* The run of main() that an interaction triggers, with the widget values and
\* the environment it reads
Rerun(dest, ppl, bud, check_in, check_out, pressed, openai, serper, fault, text) ==
    LET r == Main(session_state, dest, ppl, bud, check_in, check_out, pressed,
                  openai, serper, fault, text)
    IN  /\ session_state' = r.session
        /\ log' = r.events
        /\ button' = pressed
        /\ destination' = dest
        /\ people' = ppl
        /\ budget' = bud
        /\ check_in_date' = check_in
        /\ check_out_date' = check_out
        /\ openai_env' = openai
        /\ serper_env' = serper
        /\ produced_for' = IF Has(r.events, "store") THEN dest ELSE produced_for

\* The page is opened: an empty session, every widget at its default
Init ==
    \E today \in {d \in Dates : NextDay(d) \in Dates} :
    \E env \in Environments :
      LET r == Main(EmptySession, "", DefaultPeople, DefaultBudget, today,
                    NextDay(today), FALSE, env[1], env[2], NoFault, "")
      IN  /\ session_state = r.session
          /\ log = r.events
          /\ button = FALSE
          /\ destination = ""
          /\ people = DefaultPeople
          /\ budget = DefaultBudget
          /\ check_in_date = today
          /\ check_out_date = NextDay(today)
          /\ openai_env = env[1]
          /\ serper_env = env[2]
          /\ produced_for = None

Quiet(dest, ppl, bud, check_in, check_out) ==
    Rerun(dest, ppl, bud, check_in, check_out, FALSE, openai_env, serper_env,
          NoFault, "")

EditDestination ==
    \E d \in Destinations \ {destination} :
        Quiet(d, people, budget, check_in_date, check_out_date)

EditPeople ==
    \E n \in People \ {people} :
        Quiet(destination, n, budget, check_in_date, check_out_date)

EditBudget ==
    \E b \in Budgets \ {budget} :
        Quiet(destination, people, b, check_in_date, check_out_date)

\* The date widgets' min_value is a request to the widget library; main checks
\* the duration itself, so the model lets a date widget yield any date.
EditCheckIn ==
    \E d \in Dates \ {check_in_date} :
        Quiet(destination, people, budget, d, check_out_date)

EditCheckOut ==
    \E d \in Dates \ {check_out_date} :
        Quiet(destination, people, budget, check_in_date, d)

\* A click on the rendered download button also re-runs the script
ClickDownload ==
    /\ Has(log, "st.download_button")
    /\ Quiet(destination, people, budget, check_in_date, check_out_date)

\* "Generate Itinerary" is pressed; the environment is whatever os.getenv
\* yields at that moment, the downstream call ends as the libraries decide
PressGenerate ==
    \E env \in Environments :
    \E e \in Endings :
        Rerun(destination, people, budget, check_in_date, check_out_date, TRUE,
              env[1], env[2], e.fault, e.text)

Next ==
    \/ EditDestination
    \/ EditPeople
    \/ EditBudget
    \/ EditCheckIn
    \/ EditCheckOut
    \/ ClickDownload
    \/ PressGenerate

Spec == Init /\ [][Next]_vars

----------------------------------------------------------------------------
(* Readings of the last run *)

Slot == session_state["itinerary_result"]
Days == calculate_days(check_in_date, check_out_date)
ErrorsShown == {log[i][2] : i \in At(log, "st.error")}
KeysAbsent == ~Truthy(openai_env) \/ ~Truthy(serper_env)
Downstream == Has(log, "run_travel_planner") \/ Has(log, "Crew") \/ Has(log, "kickoff")
First(l, op) == CHOOSE i \in At(l, op) : \A j \in At(l, op) : i <= j

ShowsDestinationError == DestinationError \in ErrorsShown
ShowsDurationError == DurationError \in ErrorsShown
ShowsKeysError == KeysError \in ErrorsShown
ShowsExceptionError == \E exc \in ExceptionTypes : ExceptionError(exc) \in ErrorsShown
Stored == Has(log, "store")

\* b is a later calendar date than a
Later(b, a) ==
    \/ b.y > a.y
    \/ b.y = a.y /\ b.m > a.m
    \/ b.y = a.y /\ b.m = a.m /\ b.d > a.d

\* The number of calendar days from a to the later date b, counted by walking
\* the calendar month by month
RECURSIVE DayCount(_, _)
DayCount(a, b) ==
    IF a.y = b.y /\ a.m = b.m THEN b.d - a.d
    ELSE (DaysInMonth(a.y, a.m) - a.d + 1) +
         DayCount(IF a.m < 12 THEN Date(a.y, a.m + 1, 1) ELSE Date(a.y + 1, 1, 1), b)

----------------------------------------------------------------------------
(* Claims *)

\* C1 as stated: in every run where the button is pressed and a credential is
\* absent or empty, nothing downstream is invoked, the 'Missing API keys'
\* error is shown and no exception leaves main.
C1_KeysErrorOnEveryPress ==
    (button /\ KeysAbsent) =>
        /\ ~Downstream
        /\ ShowsKeysError
        /\ ~Has(log, "escaped")

\* C1 amended: in every run where the button is pressed and a credential is
\* absent or empty, nothing downstream is invoked and no exception leaves
\* main; when the destination and duration checks pass, the 'Missing API keys'
\* error is the one error shown and the run ends there.
C1_MissingKeysRefused ==
    (button /\ KeysAbsent) =>
        /\ ~Downstream
        /\ ~Has(log, "escaped")
        /\ (Truthy(destination) /\ Days >= 1) =>
              /\ ErrorsShown = {KeysError}
              /\ log[Len(log)] = Ev("st.error", KeysError)

C1_Witness ==
    /\ button
    /\ openai_env = "key"
    /\ serper_env = ""
    /\ ShowsKeysError
    /\ Has(log, "load_environment")

\* C2: a press with a check-out date not strictly after the check-in date
\* (duration < 1) shows the duration error, or the destination error when the
\* destination is empty as well, and neither loads the credentials nor calls
\* run_travel_planner.
C2_InvalidDatesRefused ==
    (button /\ ~Later(check_out_date, check_in_date)) =>
        /\ Days < 1
        /\ ErrorsShown = {IF destination = "" THEN DestinationError ELSE DurationError}
        /\ ~Has(log, "load_environment")
        /\ ~Downstream

C2_Witness ==
    /\ button
    /\ check_out_date = check_in_date
    /\ destination # ""
    /\ ~KeysAbsent
    /\ ShowsDurationError

\* C3: a press with an empty destination shows the destination-required error
\* and never calls run_travel_planner, whatever the party size, budget, dates
\* and credentials are.
C3_EmptyDestinationRefused ==
    (button /\ destination = "") =>
        /\ ShowsDestinationError
        /\ ~Downstream
        /\ ~Stored

C3_Witness ==
    /\ button
    /\ destination = ""
    /\ Later(check_out_date, check_in_date)
    /\ ~KeysAbsent
    /\ people # DefaultPeople
    /\ ShowsDestinationError

\* C4: an exception raised by the downstream call is caught in main and shown
\* as an inline error: it does not leave main, run_travel_planner is invoked
\* once in that run (and at most once in any run), and the result slot keeps
\* the value it had before the press.
C4_ExceptionContained ==
    [][ /\ Count(log', "run_travel_planner") <= 1
        /\ Has(log', "raised") =>
             /\ ~Has(log', "escaped")
             /\ \A i \in At(log', "raised") :
                    ExceptionError(log'[i][2]) \in {log'[j][2] : j \in At(log', "st.error")}
             /\ Count(log', "run_travel_planner") = 1
             /\ session_state' = session_state ]_vars

C4_Witness ==
    /\ button
    /\ Has(log, "raised")
    /\ ShowsExceptionError
    /\ Truthy(Slot)

\* C5: when the check-out date is after the check-in date, the duration main
\* computes with calculate_days is the number of calendar days from one to
\* the other, at least 1 (2024-06-01 to 2024-06-05: 4), and it is the value
\* run_travel_planner receives as 'days'.
C5_ExactDayDifference ==
    Later(check_out_date, check_in_date) =>
        /\ log[1] = Ev("st.info", DayCount(check_in_date, check_out_date))
        /\ log[1][2] >= 1
        /\ \A i \in At(log, "run_travel_planner") :
               log[i][2].days = DayCount(check_in_date, check_out_date)
        /\ (check_in_date = Date(2024, 6, 1) /\ check_out_date = Date(2024, 6, 5))
               => log[1][2] = 4

C5_Witness ==
    /\ check_in_date = Date(2024, 6, 1)
    /\ check_out_date = Date(2024, 6, 5)
    /\ \E i \in At(log, "run_travel_planner") : log[i][2].days = 4

\* C6: whenever the download is offered, its file name is
\* travel_itinerary_<d>.txt with d the destination of the request that
\* produced the itinerary held in the result slot.
C6_NameFollowsItinerary ==
    \A i \in At(log, "st.download_button") :
        /\ log[i][2].data = Slot
        /\ log[i][2].file_name = FileName(produced_for)

\* C10: while a non-empty itinerary is held in the result slot, every run
\* renders it (the expander and the download button), also a run whose
\* request is rejected or whose downstream call raises.
C10_AlwaysRendered ==
    Truthy(Slot) =>
        /\ \E i \in At(log, "st.expander") : log[i][2] = Slot
        /\ \E i \in At(log, "st.download_button") : log[i][2].data = Slot

\* The request of the last run passed every check of main
Accepted ==
    /\ button
    /\ Truthy(destination)
    /\ Later(check_out_date, check_in_date)
    /\ ~KeysAbsent

TaskStarts == SelectSeq(log, LAMBDA e : e[1] = "task_start")
TaskEnds == {log[i][2].task : i \in At(log, "task_end")}

\* C7: an accepted request invokes run_travel_planner exactly once (no other
\* run invokes it); the one crew it builds has the tasks [research, planning],
\* research given to the researcher and planning to the planner, under the
\* sequential process; research starts first and planning starts only after
\* research has ended; the text is stored, and then displayed, only after both
\* tasks have ended, each having run once.
C7_PipelineOnceInOrder ==
    /\ Count(log, "run_travel_planner") = (IF Accepted THEN 1 ELSE 0)
    /\ Count(log, "Crew") <= 1
    /\ Count(log, "kickoff") <= 1
    /\ \A i \in At(log, "Crew") :
          /\ log[i][2].process = "sequential"
          /\ log[i][2].tasks = << [task |-> "research", agent |-> "Travel Planner Expert"],
                                  [task |-> "planning", agent |-> "Travel Planner"] >>
    /\ [i \in DOMAIN TaskStarts |-> TaskStarts[i][2].task]
          \in {<<>>, <<"research">>, <<"research", "planning">>}
    /\ Len(TaskStarts) = 2 =>
          \E e \in At(log, "task_end") :
             /\ log[e][2].task = "research"
             /\ \A b \in At(log, "task_start") :
                    log[b][2].task = "planning" => e < b
    /\ Stored =>
          /\ Len(TaskStarts) = 2
          /\ TaskEnds = {"research", "planning"}
          /\ Count(log, "task_end") = 2
          /\ \A e \in At(log, "task_end") : e < First(log, "store")
          /\ \A x \in At(log, "st.expander") : First(log, "store") < x
    /\ (Accepted /\ ~Has(log, "raised")) => Stored

C7_Witness ==
    /\ Accepted
    /\ Stored
    /\ Truthy(Slot)
    /\ Has(log, "st.expander")
    /\ Len(TaskStarts) = 2

\* C8: the session holds the result slot and nothing else; the slot starts as
\* None; a run that does not press the button, or that shows an error
\* (destination, duration, missing credentials, caught exception), leaves
\* the slot as it was; the slot changes only to the text a downstream call
\* returned in that run.
C8_SlotWrittenOnlyBySuccess ==
    /\ Slot = None
    /\ [][ /\ DOMAIN session_state' = {"itinerary_result"}
           /\ (~button' \/ ErrorsShown' # {}) => session_state' = session_state
           /\ session_state' # session_state =>
                 \E i \in At(log', "returned") : Slot' = log'[i][2] ]_vars

C8_Witness ==
    /\ button
    /\ ShowsKeysError
    /\ Truthy(Slot)

\* C9: a press yields exactly one of destination error, duration error,
\* missing-credentials error, exception error, stored result, decided in that
\* order: an empty destination wins over invalid dates, which win over
\* missing credentials; the credentials are loaded only after both earlier
\* checks passed and before the downstream call.
C9_OneOutcomeInOrder ==
    button =>
        /\ Cardinality({o \in 1..5 :
               \/ o = 1 /\ ShowsDestinationError
               \/ o = 2 /\ ShowsDurationError
               \/ o = 3 /\ ShowsKeysError
               \/ o = 4 /\ ShowsExceptionError
               \/ o = 5 /\ Stored}) = 1
        /\ ~Truthy(destination) => ShowsDestinationError
        /\ (Truthy(destination) /\ Days < 1) => ShowsDurationError
        /\ (Truthy(destination) /\ Days >= 1 /\ KeysAbsent) => ShowsKeysError
        /\ (Truthy(destination) /\ Days >= 1 /\ ~KeysAbsent) =>
               (ShowsExceptionError \/ Stored)
        /\ Has(log, "load_environment") <=> (Truthy(destination) /\ Days >= 1)
        /\ Has(log, "run_travel_planner") =>
               First(log, "load_environment") < First(log, "run_travel_planner")

C9_Witness ==
    /\ button
    /\ destination = ""
    /\ Days < 1
    /\ KeysAbsent
    /\ ErrorsShown = {DestinationError}

====
